---- MODULE Spec2Model ----
(***************************************************************************)
(* A model of the two stateful subsystems of the repository:               *)
(*   - the task orchestration engine (src/tasks/manager.py,                *)
(*     src/tasks/state_machine.py, src/tasks/models.py), and               *)
(*   - the versioned file mutation engine (src/file_manager/handler.py).   *)
(***************************************************************************)
EXTENDS Integers, Sequences, FiniteSets, TLC

(***************************************************************************)
(* Bounds of the model.                                                    *)
(***************************************************************************)
MaxClock == 2

MaxOps == 2

TaskIds == {"A", "B", "C"}

\* Calls of add_task that set an engine up: <<id, dependencies, status>> each,
\* in the order of the calls.  Dependency-safe and unsafe orders, a fan-out, a
\* chain, a join, a dependency that is never registered, a task that depends on
\* itself, a two-task cycle and a task created BLOCKED.
Registrations ==
    {<< <<"A", <<>>, "pending">>, <<"B", <<"A">>, "pending">>, <<"C", <<"A">>, "pending">> >>,
     << <<"A", <<>>, "pending">>, <<"B", <<"A">>, "pending">>, <<"C", <<"B">>, "pending">> >>,
     << <<"A", <<>>, "pending">>, <<"B", <<>>, "pending">>, <<"C", <<"A", "B">>, "pending">> >>,
     << <<"A", <<>>, "pending">>, <<"B", <<>>, "pending">>, <<"C", <<>>, "pending">> >>,
     << <<"C", <<"B">>, "pending">>, <<"B", <<"A">>, "pending">>, <<"A", <<>>, "pending">> >>,
     << <<"A", <<>>, "pending">>, <<"B", <<"A">>, "pending">> >>,
     << <<"A", <<>>, "pending">>, <<"B", <<"C">>, "pending">> >>,
     << <<"A", <<"A">>, "pending">>, <<"B", <<"A">>, "pending">> >>,
     << <<"A", <<"B">>, "pending">>, <<"B", <<"A">>, "pending">>, <<"C", <<>>, "pending">> >>,
     << <<"A", <<>>, "pending">>, <<"B", <<"A">>, "blocked">>, <<"C", <<"A">>, "pending">> >>}

\* The set-ups of two tasks, for the runs in which time passes.
ClockRegistrations ==
    {<< <<"A", <<>>, "pending">>, <<"B", <<"A">>, "pending">> >>,
     << <<"A", <<>>, "pending">>, <<"B", <<"A">>, "blocked">> >>,
     << <<"A", <<"A">>, "pending">>, <<"B", <<"C">>, "pending">> >>}

(***************************************************************************)
(* tasks/models.py                                                         *)
(***************************************************************************)
PENDING     == "pending"
IN_PROGRESS == "in_progress"
COMPLETED   == "completed"
FAILED      == "failed"
BLOCKED     == "blocked"

TaskStatus == {PENDING, IN_PROGRESS, COMPLETED, FAILED, BLOCKED}

\* Optional[datetime] = None; the clock starts at 1.
None == 0

\* Task(...): the fields the engine reads or writes.
Task(deps, status, t) ==
    [dependencies |-> deps,
     status       |-> status,
     updated_at   |-> t,
     started_at   |-> None,
     completed_at |-> None]

Range(s) == {s[i] : i \in 1..Len(s)}

(***************************************************************************)
(* tasks/state_machine.py                                                  *)
(***************************************************************************)
\* A table in which IN_PROGRESS cannot reach COMPLETED.
transitions_no_complete ==
    (PENDING     :> {IN_PROGRESS}) @@
    (IN_PROGRESS :> {FAILED}) @@
    (FAILED      :> {PENDING, IN_PROGRESS}) @@
    (COMPLETED   :> {})

\* A table that also lets a BLOCKED task move to PENDING.
transitions_unblock ==
    (PENDING     :> {IN_PROGRESS}) @@
    (IN_PROGRESS :> {COMPLETED, FAILED}) @@
    (FAILED      :> {PENDING, IN_PROGRESS}) @@
    (COMPLETED   :> {}) @@
    (BLOCKED     :> {PENDING})

transitions ==
    (PENDING     :> {IN_PROGRESS}) @@
    (IN_PROGRESS :> {COMPLETED, FAILED}) @@
    (FAILED      :> {PENDING, IN_PROGRESS}) @@
    (COMPLETED   :> {})

\* A lookup that lets a COMPLETED task be reopened.
transitions_get_reopen(from_state) ==
    IF from_state = COMPLETED THEN {IN_PROGRESS}
    ELSE IF from_state \in DOMAIN transitions THEN transitions[from_state] ELSE {}

\* self.transitions.get(from_state, set())
transitions_get(from_state) ==
    IF from_state \in DOMAIN transitions THEN transitions[from_state] ELSE {}

can_transition(from_state, to_state) ==
    to_state \in transitions_get(from_state)

(***************************************************************************)
(* State.                                                                  *)
(***************************************************************************)
VARIABLES
    tasks,       \* TaskManager.tasks: id -> Task (a dict)
    order,       \* insertion order of the keys of TaskManager.tasks
    task_graph,  \* TaskManager.task_graph: [nodes, edges]
    now,         \* datetime.now()
    ret,         \* the last TaskManager call and what it returned
    disk,        \* the file system: location -> content of the file there
    history,     \* FileManager.history: filename -> list of write records
    history_file,\* the content of file_history.json
    dry_run,     \* FileManager.dry_run
    fret,        \* the last FileManager call, what it returned, the disk before it
    scandir,     \* the order the file system lists the entries of a directory in
    diff_call,   \* the last call of diff_utils and what it returned
    ops,         \* the number of FileManager calls made
    agent,       \* AIDevelopmentAgent: where its development loop stands
    scan         \* a get_ready_tasks call that other calls run during

tvars == <<tasks, order, task_graph, ret>>
fvars == <<disk, history, history_file, dry_run, fret, scandir, diff_call, ops>>
vars == <<tasks, order, task_graph, now, ret, disk, history, history_file,
          dry_run, fret, scandir, diff_call, ops, agent, scan>>

\* The last call: its name, arguments and result (val for a bool, list for a
\* list of task ids).
Call(op, id, status, val, list) ==
    [op |-> op, id |-> id, status |-> status, val |-> val, list |-> list]

NoCall == Call("none", "", "", FALSE, <<>>)

(***************************************************************************)
(* tasks/manager.py                                                        *)
(***************************************************************************)
\* TaskManager.__init__
EmptyManager ==
    [tasks |-> <<>>, order |-> <<>>, task_graph |-> [nodes |-> {}, edges |-> {}]]

\* TaskManager.add_task on the manager m.
add_task(m, id, deps, status, t) ==
    LET new_tasks == [k \in DOMAIN m.tasks \cup {id} |->
                         IF k = id THEN Task(deps, status, t) ELSE m.tasks[k]]
    IN  [tasks |-> new_tasks,
         order |-> IF id \in DOMAIN m.tasks THEN m.order ELSE Append(m.order, id),
         task_graph |->
            [nodes |-> m.task_graph.nodes \cup {id},
             edges |-> m.task_graph.edges \cup
                         {<<dep_id, id>> : dep_id \in Range(deps) \cap DOMAIN new_tasks}]]

\* The manager after the calls add_task(regs[1]), ..., add_task(regs[n]).
RECURSIVE register_all(_, _, _)
register_all(m, regs, t) ==
    IF regs = <<>> THEN m
    ELSE register_all(add_task(m, regs[1][1], regs[1][2], regs[1][3], t), Tail(regs), t)

\* any(...) in the place of all(...).
dependencies_met_any(task) ==
    \/ task.dependencies = <<>>
    \/ \E dep_id \in Range(task.dependencies) :
          dep_id \in DOMAIN tasks => tasks[dep_id].status = COMPLETED

\* all(self.tasks[d].status == COMPLETED for d in deps if d in self.tasks)
dependencies_met(task) ==
    \A dep_id \in Range(task.dependencies) :
        dep_id \in DOMAIN tasks => tasks[dep_id].status = COMPLETED

\* The test on the status left out.
is_ready_any_status(task_id) ==
    dependencies_met(tasks[task_id])

is_ready(task_id) ==
    /\ tasks[task_id].status = PENDING
    /\ dependencies_met(tasks[task_id])

\* A get_ready_tasks that returns the PENDING tasks, whatever their
\* dependencies.
get_ready_tasks_all_pending ==
    LET pending(task_id) == tasks[task_id].status = PENDING
    IN  SelectSeq(order, pending)

\* The list get_ready_tasks returns, in the dict's iteration order.
get_ready_tasks == SelectSeq(order, is_ready)

\* The status and timestamps update_task_status assigns on a legal pair.
apply_status(task, status) ==
    [task EXCEPT
        !.status       = status,
        !.updated_at   = now,
        !.completed_at = IF status = COMPLETED THEN now ELSE @,
        !.started_at   = IF status = IN_PROGRESS THEN now ELSE @]

\* What update_task_status returns.
update_task_status_ok(task_id, status) ==
    /\ task_id \in DOMAIN tasks
    /\ can_transition(tasks[task_id].status, status)

AddTask(id, deps, status) ==
    LET m == add_task([tasks |-> tasks, order |-> order, task_graph |-> task_graph],
                      id, deps, status, now)
    IN  /\ tasks' = m.tasks
        /\ order' = m.order
        /\ task_graph' = m.task_graph
        /\ ret' = Call("add_task", id, status, FALSE, <<>>)
        /\ UNCHANGED <<now, fvars, agent, scan>>

GetReadyTasks ==
    /\ ret' = Call("get_ready_tasks", "", "", FALSE, get_ready_tasks)
    /\ UNCHANGED <<tasks, order, task_graph, now, fvars, agent, scan>>

\* Task.estimated_hours of the task registered under an id.
estimated_hours(task_id) == [A |-> 2, B |-> 4, C |-> 3][task_id]

\* sum(t.estimated_hours for t in path)
RECURSIVE duration(_)
duration(path) ==
    IF path = <<>> THEN 0 ELSE estimated_hours(path[1]) + duration(Tail(path))

\* traverse of _get_task_path: the task, then what traverse appends for each of
\* its dependencies in turn; nothing for an id that is not registered.  depth
\* is the room left on the call stack.
RECURSIVE traverse(_, _)
RECURSIVE traverse_each(_, _)
traverse(current_id, depth) ==
    IF current_id \notin DOMAIN tasks \/ depth = 0 THEN <<>>
    ELSE <<current_id>> \o traverse_each(tasks[current_id].dependencies, depth - 1)

traverse_each(deps, depth) ==
    IF deps = <<>> THEN <<>>
    ELSE traverse(deps[1], depth) \o traverse_each(Tail(deps), depth)

\* A traverse comes back to the task it is at: the recursion has no end.
RECURSIVE Recurs(_, _, _)
Recurs(from_id, to_id, n) ==
    /\ n > 0
    /\ from_id \in DOMAIN tasks
    /\ \E dep_id \in Range(tasks[from_id].dependencies) :
          dep_id = to_id \/ Recurs(dep_id, to_id, n - 1)

RecursionError ==
    \E id \in DOMAIN tasks : Recurs(id, id, Cardinality(DOMAIN tasks))

\* TaskManager._get_task_path: list(reversed(path))
get_task_path(task_id) ==
    LET path == traverse(task_id, Cardinality(DOMAIN tasks))
    IN  [i \in 1..Len(path) |-> path[Len(path) + 1 - i]]

\* The loop of get_critical_path over the tasks from the i-th on.
RECURSIVE longest_from(_, _, _)
longest_from(i, longest_path, max_duration) ==
    IF i > Len(order) THEN longest_path
    ELSE LET path == get_task_path(order[i])
         IN  IF duration(path) > max_duration
             THEN longest_from(i + 1, path, duration(path))
             ELSE longest_from(i + 1, longest_path, max_duration)

\* TaskManager.get_critical_path: the ids of the tasks it returns; all the
\* tasks when the traversal raises.
get_critical_path ==
    IF RecursionError THEN order ELSE longest_from(1, <<>>, 0)

GetCriticalPath ==
    /\ ret' = Call("get_critical_path", "", "", FALSE, get_critical_path)
    /\ UNCHANGED <<tasks, order, task_graph, now, fvars, agent, scan>>

\* update_task_status that stamps updated_at before it asks the state machine.
UpdateTaskStatus_stamp_first(task_id, status) ==
    /\ tasks' = IF update_task_status_ok(task_id, status)
                THEN [tasks EXCEPT ![task_id] = apply_status(@, status)]
                ELSE IF task_id \in DOMAIN tasks
                     THEN [tasks EXCEPT ![task_id].updated_at = now]
                     ELSE tasks
    /\ ret' = Call("update_task_status", task_id, status,
                   update_task_status_ok(task_id, status), <<>>)
    /\ UNCHANGED <<order, task_graph, now, fvars, agent, scan>>

UpdateTaskStatus(task_id, status) ==
    /\ tasks' = IF update_task_status_ok(task_id, status)
                THEN [tasks EXCEPT ![task_id] = apply_status(@, status)]
                ELSE tasks
    /\ ret' = Call("update_task_status", task_id, status,
                   update_task_status_ok(task_id, status), <<>>)
    /\ UNCHANGED <<order, task_graph, now, fvars, agent, scan>>

\* Time passes between two calls.
Tick ==
    /\ now < MaxClock
    /\ now' = now + 1
    /\ UNCHANGED <<tvars, fvars, agent, scan>>

(***************************************************************************)
(* file_manager/handler.py                                                 *)
(*                                                                         *)
(* A path is a sequence of components and a component the sequence of its  *)
(* dot-separated parts: "src/a.py" is << <<"src">>, <<"a", "py">> >>.  A   *)
(* location is a resolved path, relative to the working directory.  A      *)
(* content is the sequence of the lines of a text.                         *)
(***************************************************************************)
OutputDir == << <<"outputs">> >>
BackupDir == OutputDir \o << <<"backups">> >>

\* pathlib's "/": an absolute right operand replaces the left one.
Join(base, filename) ==
    IF filename # <<>> /\ filename[1] = <<"/">> THEN filename ELSE base \o filename

\* What the file system makes of a path: ".." leaves the directory reached.
RECURSIVE Resolve(_, _)
Resolve(reached, path) ==
    IF path = <<>> THEN reached
    ELSE IF path[1] = <<"..">>
         THEN Resolve(IF reached = <<>> \/ reached = << <<"/">> >>
                      THEN reached
                      ELSE SubSeq(reached, 1, Len(reached) - 1),
                      Tail(path))
         ELSE Resolve(Append(reached, path[1]), Tail(path))

Locate(base, filename) == Resolve(<<>>, Join(base, filename))

IsUnder(dir, loc) == Len(loc) > Len(dir) /\ SubSeq(loc, 1, Len(dir)) = dir

\* The seconds of the model as strftime("%Y%m%d_%H%M%S") prints them: two
\* seconds before the engine was constructed, then those of the clock.
Timestamps ==
    <<"20231231_235958", "20231231_235959",
      "20240101_000001", "20240101_000002", "20240101_000003",
      "20240101_000004", "20240101_000005">>

\* datetime.now().strftime("%Y%m%d_%H%M%S") at the clock values of the model.
strftime(t) == Timestamps[t + 2]

\* len(content) of the text whose lines are content.
RECURSIVE SumLen(_)
SumLen(lines) == IF lines = <<>> THEN 0 ELSE Len(lines[1]) + SumLen(Tail(lines))

len(content) == IF content = <<>> THEN 0 ELSE SumLen(content) + Len(content) - 1

\* open(loc, 'w') and write(content) on the disk d.
Put(d, loc, content) ==
    [l \in DOMAIN d \cup {loc} |-> IF l = loc THEN content ELSE d[l]]

\* f"{filename}.{timestamp}.{task_id}.bak"
backup_filename(filename, task_id, t) ==
    [filename EXCEPT ![Len(filename)] = @ \o <<strftime(t), task_id, "bak">>]

\* A _create_backup that creates the backup and leaves it empty.
create_backup_empty(d, filename, content, task_id, kind, t) ==
    LET backup_path == Locate(BackupDir, backup_filename(filename, task_id, t))
    IN  IF kind = "backup"
        THEN [disk |-> d, path |-> <<>>]
        ELSE [disk |-> Put(d, backup_path, <<>>), path |-> backup_path]

\* FileManager._create_backup: the disk after it and the path it returns (<<>>
\* for "").  kind = "backup": the backup cannot be opened for writing.
create_backup(d, filename, content, task_id, kind, t) ==
    LET backup_path == Locate(BackupDir, backup_filename(filename, task_id, t))
    IN  IF kind = "backup"
        THEN [disk |-> d, path |-> <<>>]
        ELSE [disk |-> Put(d, backup_path, content), path |-> backup_path]

\* len(list(self.backup_dir.glob(f"{filename}.*.bak")))
backup_count(d, filename) ==
    LET dir  == Locate(BackupDir, SubSeq(filename, 1, Len(filename) - 1))
        name == filename[Len(filename)]
    IN  Cardinality({loc \in DOMAIN d :
            /\ Len(loc) = Len(dir) + 1
            /\ SubSeq(loc, 1, Len(dir)) = dir
            /\ LET n == loc[Len(loc)]
               IN  /\ Len(n) >= Len(name) + 2
                   /\ SubSeq(n, 1, Len(name)) = name
                   /\ n[Len(n)] = "bak"})

\* Keep only last 100 entries per file.
HistoryCap == 100

\* FileManager._update_file_history
update_file_history(h, d, filename, task_id, size, t) ==
    LET old == IF filename \in DOMAIN h THEN h[filename] ELSE <<>>
        new == Append(old, [task_id |-> task_id, timestamp |-> t, size |-> size,
                            backup_count |-> backup_count(d, filename)])
        kept == IF Len(new) > HistoryCap
                THEN SubSeq(new, Len(new) - HistoryCap + 1, Len(new))
                ELSE new
    IN  [f \in DOMAIN h \cup {filename} |-> IF f = filename THEN kept ELSE h[f]]

(***************************************************************************)
(* file_manager/diff_utils.py.  The text of a content is its lines joined  *)
(* by "\n".  A line kept with its end is the pair of the line and whether  *)
(* "\n" follows it.  A diff is the sequence of the pieces unified_diff     *)
(* yields: the mark a piece starts with, the text after the mark, and      *)
(* whether the piece ends in "\n"; its text is the pieces joined.  The     *)
(* lines two texts have in common at their start and at their end are     *)
(* matched; the diff is that of difflib for texts that have no other line  *)
(* in common.                                                              *)
(***************************************************************************)
RECURSIVE CommonPrefix(_, _)
CommonPrefix(a, b) ==
    IF a # <<>> /\ b # <<>> /\ a[1] = b[1]
    THEN 1 + CommonPrefix(Tail(a), Tail(b)) ELSE 0

Reverse(a) == [i \in 1..Len(a) |-> a[Len(a) + 1 - i]]

\* content.splitlines(keepends=True)
splitlines(content) == [i \in 1..Len(content) |-> <<content[i], i < Len(content)>>]

Marked(mark, lines) ==
    [i \in 1..Len(lines) |-> [mark |-> mark, text |-> lines[i][1], nl |-> lines[i][2]]]

\* The lines of context unified_diff keeps around a change.
ContextLines == 3

Min(a, b) == IF a < b THEN a ELSE b

generate_diff(old_content, new_content, filename) ==
    IF old_content = new_content
    THEN << [mark |-> "N", text |-> "o changes in", nl |-> FALSE] >>
    ELSE LET old_lines == splitlines(old_content)
             new_lines == splitlines(new_content)
             p == CommonPrefix(old_lines, new_lines)
             olds == SubSeq(old_lines, p + 1, Len(old_lines))
             news == SubSeq(new_lines, p + 1, Len(new_lines))
             q == CommonPrefix(Reverse(olds), Reverse(news))
             before == Min(p, ContextLines)
             after == Min(q, ContextLines)
         IN  << [mark |-> "---", text |-> "(old)", nl |-> TRUE],
                [mark |-> "+++", text |-> "(new)", nl |-> TRUE],
                [mark |-> "@@", text |-> "", nl |-> TRUE] >>
             \o Marked(" ", SubSeq(old_lines, p - before + 1, p))
             \o Marked("-", SubSeq(olds, 1, Len(olds) - q))
             \o Marked("+", SubSeq(news, 1, Len(news) - q))
             \o Marked(" ", SubSeq(olds, Len(olds) - q + 1, Len(olds) - q + after))

\* The pieces from the first on that make one line of the text of a diff.
RECURSIVE LineEnd(_, _)
LineEnd(pieces, k) ==
    IF k >= Len(pieces) \/ pieces[k].nl THEN k ELSE LineEnd(pieces, k + 1)

RECURSIVE Joined(_)
Joined(pieces) ==
    IF pieces = <<>> THEN ""
    ELSE pieces[1].mark \o pieces[1].text \o Joined(Tail(pieces))

\* diff_text.splitlines(): the mark each line starts with and what follows it.
RECURSIVE diff_splitlines(_)
diff_splitlines(pieces) ==
    IF pieces = <<>> THEN <<>>
    ELSE LET k == LineEnd(pieces, 1)
         IN  << [mark |-> pieces[1].mark,
                 rest |-> pieces[1].text \o Joined(SubSeq(pieces, 2, k))] >>
             \o diff_splitlines(SubSeq(pieces, k + 1, Len(pieces)))

RECURSIVE Concat(_)
Concat(strings) == IF strings = <<>> THEN "" ELSE strings[1] \o Concat(Tail(strings))

\* The loop of apply_diff: result after the diff lines from the i-th on, or
\* "IndexError" when a context line comes first and the original is empty.
RECURSIVE apply_lines(_, _, _, _)
apply_lines(lines, diff_lines, i, result) ==
    IF i > Len(diff_lines) THEN result
    ELSE LET line == diff_lines[i]
         IN  IF line.mark = " "
             THEN IF result = <<>> /\ lines = <<>> THEN "IndexError"
                  ELSE apply_lines(lines, diff_lines, i + 1, Append(result, line.rest))
             ELSE IF line.mark = "+"
             THEN apply_lines(lines, diff_lines, i + 1, Append(result, line.rest))
             ELSE apply_lines(lines, diff_lines, i + 1, result)

\* apply_diff: the content it returns, "None" when it returns None.
apply_diff(original, diff) ==
    LET lines == splitlines(original)
        result == apply_lines(lines, diff_splitlines(diff), 1, <<>>)
    IN  IF result = "IndexError" THEN "None"
        ELSE IF lines # <<>>
             THEN IF Concat(result) = "" THEN <<>> ELSE <<Concat(result)>>
             ELSE result

\* FileManager._write_file_safe, for an engine whose dry_run is dry, on the
\* disk d and the history h.  kind is what
\* goes wrong for this file:
\*   "none"        nothing;
\*   "read"        creating the parent directory or reading the target raises;
\*   "backup"      writing the backup raises (caught in _create_backup);
\*   "write_open"  opening the target for writing raises;
\*   "write_trunc" writing raises after open(.., 'w') truncated the target;
\*   "history"     the glob of _update_file_history raises, after the entry of
\*                 the file in the history was created.
write_file_safe(dry, d, h, filename, content, task_id, kind, t) ==
    LET filepath == Locate(OutputDir, filename)
        exists   == filepath \in DOMAIN d
        diff == IF exists
                THEN generate_diff(d[filepath], content, Join(OutputDir, filename))
                ELSE <<>>
        b == IF exists /\ ~dry
             THEN create_backup(d, filename, d[filepath], task_id, kind, t)
             ELSE [disk |-> d, path |-> <<>>]
        written == Put(b.disk, filepath, content)
        failure(d2) == [success |-> FALSE, error |-> kind, disk |-> d2,
                        history |-> h, backup |-> <<>>, diff |-> <<>>]
        entered == [f \in DOMAIN h \cup {filename} |->
                       IF f \in DOMAIN h THEN h[f] ELSE <<>>]
    IN  IF kind = "read" THEN failure(d)
        ELSE IF dry
        THEN [success |-> TRUE, error |-> "none", disk |-> d, history |-> h,
              backup |-> <<>>, diff |-> diff]
        ELSE IF kind = "write_open" THEN failure(b.disk)
        ELSE IF kind = "write_trunc" THEN failure(Put(b.disk, filepath, <<>>))
        ELSE IF kind = "history"
        THEN [failure(written) EXCEPT !.history = entered]
        ELSE [success |-> TRUE, error |-> "none", disk |-> written,
              history |-> update_file_history(h, written, filename, task_id,
                                              len(content), t),
              backup |-> b.path, diff |-> diff]

\* A write_files that keeps no record of a file that failed.
report_success_only(r, filename, result) ==
    [disk    |-> result.disk,
     history |-> result.history,
     success |-> IF result.success THEN Append(r.success, filename) ELSE r.success,
     failed  |-> r.failed,
     backups |-> IF result.success /\ result.backup # <<>>
                 THEN Append(r.backups, result.backup) ELSE r.backups,
     diffs   |-> IF result.success
                 THEN [f \in DOMAIN r.diffs \cup {filename} |->
                          IF f = filename THEN result.diff ELSE r.diffs[f]]
                 ELSE r.diffs]

\* What write_files adds to its results for one file.
report(r, filename, result) ==
    [disk    |-> result.disk,
     history |-> result.history,
     success |-> IF result.success THEN Append(r.success, filename) ELSE r.success,
     failed  |-> IF result.success THEN r.failed
                 ELSE Append(r.failed, [filename |-> filename, error |-> result.error]),
     backups |-> IF result.success /\ result.backup # <<>>
                 THEN Append(r.backups, result.backup) ELSE r.backups,
     diffs   |-> IF result.success
                 THEN [f \in DOMAIN r.diffs \cup {filename} |->
                          IF f = filename THEN result.diff ELSE r.diffs[f]]
                 ELSE r.diffs]

\* The loop of FileManager.write_files from file i on; r holds the disk, the
\* history and the results so far.  fault names the file something goes wrong
\* for (at) and what (kind).
RECURSIVE write_files_from(_, _, _, _, _, _, _)
write_files_from(dry, r, files, i, task_id, fault, t) ==
    IF i > Len(files) THEN r
    ELSE LET filename == files[i].filename
             result == write_file_safe(dry, r.disk, r.history, filename,
                                       files[i].code, task_id,
                                       IF fault.at = i THEN fault.kind ELSE "none", t)
         IN  write_files_from(dry, report(r, filename, result), files, i + 1,
                              task_id, fault, t)

write_files(dry, d, h, files, task_id, fault, t) ==
    write_files_from(dry,
                     [disk |-> d, history |-> h, success |-> <<>>,
                      failed |-> <<>>, backups |-> <<>>, diffs |-> <<>>],
                     files, 1, task_id, fault, t)

\* A _save_history that writes the file in dry-run mode too.
save_history_always(hf, h) == [exists |-> TRUE, data |-> h]

\* FileManager._save_history: the history file after it.
save_history(hf, h) == IF dry_run THEN hf ELSE [exists |-> TRUE, data |-> h]

\* self.backup_dir.glob(f"*.{task_id}.bak"): the files of the backup directory
\* itself whose name ends in .{task_id}.bak
glob_backups(d, task_id) ==
    {loc \in DOMAIN d :
        /\ Len(loc) = Len(BackupDir) + 1
        /\ SubSeq(loc, 1, Len(BackupDir)) = BackupDir
        /\ LET n == loc[Len(loc)]
           IN  Len(n) >= 3 /\ n[Len(n)] = "bak" /\ n[Len(n) - 1] = task_id}

\* '.'.join(backup.name.split('.')[:-3])
original_filename(backup) ==
    LET n == backup[Len(backup)] IN << SubSeq(n, 1, Len(n) - 3) >>

restore_target(backup) == Locate(OutputDir, original_filename(backup))

\* The second a backup was made at, read from its name.
stamp(backup) ==
    LET n == backup[Len(backup)]
    IN  CHOOSE k \in 1..Len(Timestamps) : Timestamps[k] = n[Len(n) - 2]

\* glob yields b1 before b2, or they are the same.
ListedBefore(b1, b2) ==
    IF scandir = "ascending" THEN stamp(b1) <= stamp(b2) ELSE stamp(b1) >= stamp(b2)

\* A rollback that removes the backups it restored.
rollback_to_task_consuming(d, task_id, last) ==
    IF dry_run THEN d
    ELSE [l \in (DOMAIN d \cup DOMAIN last) \ glob_backups(d, task_id) |->
             IF l \in DOMAIN last THEN d[last[l]] ELSE d[l]]

\* FileManager.rollback_to_task on the disk d.  The order glob yields the
\* backups in is the directory's: last[target] is the backup of the target
\* that is restored last.
rollback_to_task(d, task_id, last) ==
    IF dry_run THEN d
    ELSE [l \in DOMAIN d \cup DOMAIN last |->
             IF l \in DOMAIN last THEN d[last[l]] ELSE d[l]]

\* The choices of last for the backups glob finds, in the order of scandir.
RestoreOrders(d, task_id) ==
    LET backups == glob_backups(d, task_id)
        targets == {restore_target(b) : b \in backups}
    IN  {last \in [targets -> backups] :
            \A target \in targets :
                /\ restore_target(last[target]) = target
                /\ \A b \in backups :
                      restore_target(b) = target => ListedBefore(b, last[target])}

\* The last FileManager call: its name and arguments, what it returned, and
\* the disk before it.
FileCall(op, task_id, files, success, failed, backups, diffs, restored, pre) ==
    [op |-> op, task_id |-> task_id, files |-> files, success |-> success,
     failed |-> failed, backups |-> backups, diffs |-> diffs,
     restored |-> restored, pre |-> pre]

NoFileCall == FileCall("none", "", <<>>, <<>>, <<>>, <<>>, <<>>, {}, <<>>)

\* The last call of diff_utils: generate_diff(old_content, new_content, ..)
\* and the diff it returned, then apply_diff(old_content, diff) and the content
\* it returned.
DiffCall(op, old_content, new_content, diff, patched) ==
    [op |-> op, old_content |-> old_content, new_content |-> new_content,
     diff |-> diff, patched |-> patched]

NoDiffCall == DiffCall("none", <<>>, <<>>, <<>>, <<>>)

\* The development loop is not running.  last: the task _process_ai_task was
\* called on last, its status when the builder was called, the status the call
\* reported at its end, and whether an earlier call on the task succeeded.
\* succeeded: the tasks a call reported COMPLETED.
NoProcess == [id |-> "", built_as |-> "", result |-> "", again |-> FALSE]

NoAgent ==
    [pc |-> "idle", n_tasks |-> 0, ready_tasks |-> <<>>, iteration |-> 1,
     completed_tasks |-> 0, succeeded |-> {}, last |-> NoProcess]

\* No get_ready_tasks call is under way.  In a call: the place of the loop in
\* the dict, the list built so far, and the ready lists of the states the table
\* has been in since the call began.
NoScan == [pc |-> "idle", i |-> 1, ready_tasks |-> <<>>, snapshots |-> {}]

\* No FileManager is in use.
NoFileManager ==
    /\ disk = <<>>
    /\ history = <<>>
    /\ history_file = [exists |-> FALSE, data |-> <<>>]
    /\ dry_run = FALSE
    /\ fret = NoFileCall
    /\ scandir = "ascending"
    /\ diff_call = NoDiffCall
    /\ ops = 0

WriteFiles(files, task_id, fault) ==
    /\ ops < MaxOps
    /\ LET r == write_files(dry_run, disk, history, files, task_id, fault, now)
       IN  /\ disk' = r.disk
           /\ history' = r.history
           /\ history_file' = save_history(history_file, r.history)
           /\ fret' = FileCall("write_files", task_id, files, r.success, r.failed,
                               r.backups, r.diffs, {}, disk)
    /\ ops' = ops + 1
    /\ UNCHANGED <<tvars, now, dry_run, scandir, diff_call, agent, scan>>

Rollback(task_id) ==
    /\ ops < MaxOps
    /\ \E last \in RestoreOrders(disk, task_id) :
          /\ disk' = rollback_to_task(disk, task_id, last)
          /\ fret' = FileCall("rollback_to_task", task_id, <<>>, <<>>, <<>>, <<>>, <<>>,
                              {original_filename(b) : b \in glob_backups(disk, task_id)},
                              disk)
    /\ ops' = ops + 1
    /\ UNCHANGED <<tvars, now, dry_run, scandir, diff_call, history, history_file, agent, scan>>

(***************************************************************************)
(* FileSpec: a FileManager constructed on a managed root that may hold     *)
(* files already, then any write_files and rollback_to_task calls, with    *)
(* time passing between the calls.                                         *)
(***************************************************************************)
X_TXT  == << <<"x", "txt">> >>
SRC_A  == << <<"src">>, <<"a", "py">> >>
SECRET == << <<"..">>, <<"secret">> >>

Hello      == <<"hello">>
HelloWorld == <<"hello world">>

WorkUnits == {"T1", "T2"}

\* A backup of filename made before the engine was constructed, k seconds
\* into Timestamps.
OldBackup(filename, task_id, k) ==
    Locate(BackupDir,
           [filename EXCEPT ![Len(filename)] = @ \o <<Timestamps[k], task_id, "bak">>])

\* What the working directory holds at construction: nothing; or a file at the
\* top of the managed root with two backups of it that an earlier engine made
\* under T1, a file in a subdirectory of the root and a file beside the root.
InitialDisks ==
    {<<>>,
     (Locate(OutputDir, X_TXT) :> Hello) @@ (Locate(OutputDir, SRC_A) :> Hello)
        @@ (Locate(OutputDir, SECRET) :> <<"key">>)
        @@ (OldBackup(X_TXT, "T1", 1) :> <<"v1">>)
        @@ (OldBackup(X_TXT, "T1", 2) :> <<"v2">>)}

File(filename, code) == [filename |-> filename, code |-> code]

\* The calls of write_files: a batch and the task id it is written under.
WriteCalls ==
    {[files |-> <<File(X_TXT, HelloWorld)>>, task_id |-> "T1"],
     [files |-> <<File(SRC_A, HelloWorld)>>, task_id |-> "T1"],
     [files |-> <<File(SECRET, Hello), File(X_TXT, Hello)>>, task_id |-> "T2"]}

FaultKinds == {"read", "backup", "write_open", "write_trunc", "history"}

NoFault == [at |-> 0, kind |-> "none"]

\* The faults that can show in a call: the step that fails is one the call
\* takes.  One file of a batch at most meets a fault.
Faults(files) ==
    {NoFault} \cup
    {fault \in [at : 1..Len(files), kind : FaultKinds] :
        /\ fault.kind = "backup" =>
              (~dry_run /\ Locate(OutputDir, files[fault.at].filename) \in DOMAIN disk)
        /\ fault.kind \in {"write_open", "write_trunc", "history"} => ~dry_run}

FileInit ==
    /\ tasks = EmptyManager.tasks
    /\ order = EmptyManager.order
    /\ task_graph = EmptyManager.task_graph
    /\ ret = NoCall
    /\ now = 1
    /\ disk \in InitialDisks
    /\ history = <<>>
    /\ history_file = [exists |-> FALSE, data |-> <<>>]
    /\ dry_run \in BOOLEAN
    /\ fret = NoFileCall
    /\ scandir \in {"ascending", "descending"}
    /\ diff_call = NoDiffCall
    /\ ops = 0
    /\ agent = NoAgent
    /\ scan = NoScan

\* The engine reads the clock in its calls only: time passes between two calls.
FileTick ==
    /\ 0 < ops /\ ops < MaxOps
    /\ Tick

FileNext ==
    \/ \E call \in WriteCalls :
          \E fault \in Faults(call.files) : WriteFiles(call.files, call.task_id, fault)
    \/ \E task_id \in WorkUnits : Rollback(task_id)
    \/ FileTick

FileSpec == FileInit /\ [][FileNext]_vars

(***************************************************************************)
(* Spec: an engine set up by a series of add_task calls, then any          *)
(* update_task_status and get_ready_tasks calls.                           *)
(***************************************************************************)
\* The engine right after the add_task calls regs, made at time 1.
SetUp(regs) ==
    LET m == register_all(EmptyManager, regs, 1)
    IN  /\ tasks = m.tasks
        /\ order = m.order
        /\ task_graph = m.task_graph
        /\ now = 1
        /\ ret = NoCall
        /\ NoFileManager
        /\ agent = NoAgent
        /\ scan = NoScan

Init == \E regs \in Registrations : SetUp(regs)

Next ==
    \/ \E id \in TaskIds, status \in TaskStatus : UpdateTaskStatus(id, status)
    \/ GetReadyTasks
    \/ GetCriticalPath

Spec == Init /\ [][Next]_vars

(***************************************************************************)
(* ClockSpec: the same calls on an engine of two tasks, with time passing  *)
(* between the calls, so that every timestamp a call writes can differ     *)
(* from the one it replaces.                                               *)
(***************************************************************************)
ClockInit == \E regs \in ClockRegistrations : SetUp(regs)

ClockNext ==
    \/ \E id \in TaskIds, status \in TaskStatus : UpdateTaskStatus(id, status)
    \/ GetReadyTasks
    \/ Tick

ClockSpec == ClockInit /\ [][ClockNext]_vars

(***************************************************************************)
(* DriverSpec: a driver loop over an engine whose tasks were registered    *)
(* PENDING, every dependency registered and the dependencies acyclic.  It  *)
(* polls get_ready_tasks, starts a task the engine reports ready and       *)
(* completes a task it started.  The loop keeps running: weak fairness.    *)
(***************************************************************************)
\* The dependency relation: <<d, t>> when d is in t.dependencies.
DependsOn == {<<d, t>> \in TaskIds \X DOMAIN tasks : d \in Range(tasks[t].dependencies)}

\* d reaches t along at least one and at most n dependency edges.
RECURSIVE Reaches(_, _, _)
Reaches(d, t, n) ==
    /\ n > 0
    /\ \/ <<d, t>> \in DependsOn
       \/ \E m \in TaskIds : <<d, m>> \in DependsOn /\ Reaches(m, t, n - 1)

Acyclic == \A t \in TaskIds : ~Reaches(t, t, Cardinality(TaskIds))

AllDependenciesRegistered ==
    \A t \in DOMAIN tasks : Range(tasks[t].dependencies) \subseteq DOMAIN tasks

DriverInit ==
    /\ Init
    /\ Acyclic
    /\ AllDependenciesRegistered
    /\ \A t \in DOMAIN tasks : tasks[t].status = PENDING

DriverPoll == GetReadyTasks

DriverStart(t) ==
    /\ t \in Range(get_ready_tasks)
    /\ UpdateTaskStatus(t, IN_PROGRESS)

DriverComplete(t) ==
    /\ t \in DOMAIN tasks
    /\ tasks[t].status = IN_PROGRESS
    /\ UpdateTaskStatus(t, COMPLETED)

DriverNext ==
    \/ DriverPoll
    \/ \E t \in TaskIds : DriverStart(t)
    \/ \E t \in TaskIds : DriverComplete(t)

DriverSpec == DriverInit /\ [][DriverNext]_vars /\ WF_vars(DriverNext)

(***************************************************************************)
(* Properties of the task orchestration engine.                            *)
(***************************************************************************)
\* The ready set as the specification defines it.
ReadySet ==
    {t \in DOMAIN tasks :
        /\ tasks[t].status = PENDING
        /\ \A d \in Range(tasks[t].dependencies) :
              d \in DOMAIN tasks /\ tasks[d].status = COMPLETED}

\* C1: when every dependency id names a registered task and the dependencies
\* form a DAG, get_ready_tasks returns, each once, exactly the PENDING tasks
\* whose dependencies are all COMPLETED, after any update_task_status calls; a
\* returned task never has a dependency that is not COMPLETED.
C1_ReadyExact ==
    (AllDependenciesRegistered /\ Acyclic) =>
        /\ Range(get_ready_tasks) = ReadySet
        /\ Len(get_ready_tasks) = Cardinality(ReadySet)
        /\ \A i \in 1..Len(get_ready_tasks) :
              \A d \in Range(tasks[get_ready_tasks[i]].dependencies) :
                  tasks[d].status = COMPLETED
        /\ ret.op = "get_ready_tasks" => ret.list = get_ready_tasks

\* A call returned a task that has dependencies and left out a PENDING task
\* with a dependency that is not COMPLETED.
C1_Witness ==
    /\ AllDependenciesRegistered /\ Acyclic
    /\ ret.op = "get_ready_tasks"
    /\ \E t \in Range(ret.list) : tasks[t].dependencies # <<>>
    /\ \E t \in DOMAIN tasks \ Range(ret.list) :
          /\ tasks[t].status = PENDING
          /\ \E d \in Range(tasks[t].dependencies) : tasks[d].status # COMPLETED

LegalPairs ==
    {<<PENDING, IN_PROGRESS>>, <<IN_PROGRESS, COMPLETED>>, <<IN_PROGRESS, FAILED>>,
     <<FAILED, PENDING>>, <<FAILED, IN_PROGRESS>>}

\* C3: update_task_status with an illegal pair returns false and changes no
\* task: neither its status nor a timestamp, nor another task, however often
\* the call is repeated.
C3_RejectionHasNoEffect ==
    [][(/\ ret'.op = "update_task_status"
        /\ UpdateTaskStatus(ret'.id, ret'.status)
        /\ ret'.id \in DOMAIN tasks
        /\ <<tasks[ret'.id].status, ret'.status>> \notin LegalPairs)
          => (tasks' = tasks /\ ~ret'.val /\ order' = order
              /\ task_graph' = task_graph)]_vars

\* A call on a started task was rejected at a later time than its last update.
C3_Witness ==
    /\ ret.op = "update_task_status" /\ ~ret.val
    /\ ret.id \in DOMAIN tasks
    /\ <<tasks[ret.id].status, ret.status>> \notin LegalPairs
    /\ tasks[ret.id].started_at # None
    /\ tasks[ret.id].updated_at < now

\* C4: can_transition is true of exactly the five legal pairs, and so is what
\* update_task_status returns for every registered task and every target.
C4_TransitionTable ==
    /\ \A f \in TaskStatus, t \in TaskStatus :
          can_transition(f, t) <=> <<f, t>> \in LegalPairs
    /\ \A id \in DOMAIN tasks, s \in TaskStatus :
          update_task_status_ok(id, s) <=> <<tasks[id].status, s>> \in LegalPairs

\* update_task_status(id, PENDING) was rejected for a BLOCKED task.
C4_Witness ==
    /\ ret.op = "update_task_status" /\ ~ret.val /\ ret.status = PENDING
    /\ ret.id \in DOMAIN tasks
    /\ tasks[ret.id].status = BLOCKED

\* C5: once a task is COMPLETED no update_task_status call changes its status,
\* and every update_task_status call on it returns false.
C5_CompletedIsTerminal ==
    [][(ret'.op = "update_task_status" /\ UpdateTaskStatus(ret'.id, ret'.status))
          => \A id \in DOMAIN tasks :
                tasks[id].status = COMPLETED =>
                    /\ tasks'[id].status = COMPLETED
                    /\ ret'.id = id => ~ret'.val]_vars

\* A call on a COMPLETED task was rejected.
C5_Witness ==
    /\ ret.op = "update_task_status" /\ ~ret.val
    /\ ret.id \in DOMAIN tasks
    /\ tasks[ret.id].status = COMPLETED
    /\ ret.status \in {PENDING, IN_PROGRESS}

\* The scenario of C6: A without dependencies, B and C depending on A only, B
\* and C as newly added.
Fresh(t) ==
    /\ tasks[t].status = PENDING
    /\ tasks[t].started_at = None
    /\ tasks[t].completed_at = None

FanOutScenario ==
    /\ DOMAIN tasks = {"A", "B", "C"}
    /\ tasks["A"].dependencies = <<>>
    /\ tasks["B"].dependencies = <<"A">>
    /\ tasks["C"].dependencies = <<"A">>
    /\ Fresh("B") /\ Fresh("C")

\* C6 as stated: right after the single call update_task_status(A, COMPLETED)
\* on the newly added tasks, get_ready_tasks returns {B, C}.
C6_Original ==
    (/\ FanOutScenario
     /\ tasks["A"].started_at = None
     /\ ret.op = "update_task_status" /\ ret.id = "A" /\ ret.status = COMPLETED)
        => Range(get_ready_tasks) = {"B", "C"}

\* C6 amended: get_ready_tasks returns {A} while A is PENDING; the call
\* update_task_status(A, COMPLETED) on the newly added A returns false and
\* leaves that so; while A is IN_PROGRESS nothing is ready; once A is
\* COMPLETED (through IN_PROGRESS) get_ready_tasks returns {B, C}.
C6_FanOut ==
    FanOutScenario =>
        /\ tasks["A"].status = PENDING => Range(get_ready_tasks) = {"A"}
        /\ (/\ tasks["A"].started_at = None
            /\ ret.op = "update_task_status" /\ ret.id = "A"
            /\ ret.status = COMPLETED)
              => (~ret.val /\ Range(get_ready_tasks) = {"A"})
        /\ tasks["A"].status = IN_PROGRESS => get_ready_tasks = <<>>
        /\ tasks["A"].status = COMPLETED =>
              (Range(get_ready_tasks) = {"B", "C"} /\ tasks["A"].started_at # None)
        /\ ret.op = "get_ready_tasks" => ret.list = get_ready_tasks

\* get_ready_tasks returned B and C after A was completed.
C6_Witness ==
    /\ FanOutScenario
    /\ tasks["A"].status = COMPLETED
    /\ ret.op = "get_ready_tasks"
    /\ Range(ret.list) = {"B", "C"}

(***************************************************************************)
(* Properties of the file mutation engine.                                 *)
(***************************************************************************)
\* What the disk d holds at loc: <<>> when no file is there, else <<content>>.
At(d, loc) == IF loc \in DOMAIN d THEN <<d[loc]>> ELSE <<>>

Target(filename) == Locate(OutputDir, filename)

FailedNames == {fret.failed[i].filename : i \in 1..Len(fret.failed)}

\* C7: a rollback_to_task(W) that follows a batch written under W by an engine
\* that is not in dry-run mode leaves every path the batch wrote with the
\* content it had right before the batch, be it at the top of the managed root
\* or in a subdirectory, and whether or not it existed.
C7_RollbackRestores ==
    [][(/\ ~dry_run
        /\ fret.op = "write_files"
        /\ fret'.op = "rollback_to_task"
        /\ fret'.task_id = fret.task_id)
          => \A i \in 1..Len(fret.success) :
                At(disk', Target(fret.success[i])) = At(fret.pre, Target(fret.success[i]))]_vars

\* C8: write_files reports every path that resolves outside the managed root
\* under failed, and creates or changes no file outside the managed root.
C8_EscapingPathRejected ==
    fret.op = "write_files" =>
        /\ \A i \in 1..Len(fret.files) :
              ~IsUnder(OutputDir, Target(fret.files[i].filename))
                  => fret.files[i].filename \in FailedNames
        /\ \A loc \in DOMAIN disk \cup DOMAIN fret.pre :
              ~IsUnder(OutputDir, loc) => At(disk, loc) = At(fret.pre, loc)

\* The backups of filename written under task_id.
BackupsOf(d, filename, task_id) ==
    {loc \in DOMAIN d :
        \E t \in 1..MaxClock : loc = Locate(BackupDir, backup_filename(filename, task_id, t))}

\* C9: when an engine that is not in dry-run mode has changed a target that
\* existed, a backup tagged with the task id of the batch holds the content
\* the target had before: no target is overwritten without its backup.
C9_BackupBeforeOverwrite ==
    (fret.op = "write_files" /\ ~dry_run) =>
        \A i \in 1..Len(fret.files) :
            LET filename == fret.files[i].filename
                loc == Target(filename)
            IN  (loc \in DOMAIN fret.pre /\ At(disk, loc) # At(fret.pre, loc))
                    => \E b \in BackupsOf(disk, filename, fret.task_id) :
                          disk[b] = fret.pre[loc]

\* C10: a path write_files reports under failed has the content it had before
\* the batch.
C10_FailedPathUnchanged ==
    fret.op = "write_files" =>
        \A name \in FailedNames : At(disk, Target(name)) = At(fret.pre, Target(name))

SuccessNames == {fret.success[i] : i \in 1..Len(fret.success)}

\* C11: in every write_files call each file of the batch is reported under
\* exactly one of success and failed, and every file other than the one a
\* step fails for is reported under success and (when the engine is not in
\* dry-run mode) holds its new content afterwards, be it before or after the
\* failing file in the batch, and whatever failed in the calls before.
C11_FilesIndependent ==
    [][(fret'.op = "write_files" /\ ops' = ops + 1) =>
          /\ \A i \in 1..Len(fret'.files) :
                LET name == fret'.files[i].filename
                IN  (name \in SuccessNames') # (name \in FailedNames')
          /\ \A fault \in Faults(fret'.files) :
                (/\ fret'.failed =
                       (IF fault.kind \in {"none", "backup"} THEN <<>>
                        ELSE << [filename |-> fret'.files[fault.at].filename,
                                 error |-> fault.kind] >>)
                 /\ WriteFiles(fret'.files, fret'.task_id, fault)) =>
                    \A i \in 1..Len(fret'.files) :
                        LET name == fret'.files[i].filename
                        IN  i # fault.at =>
                                /\ name \in SuccessNames'
                                /\ ~dry_run =>
                                      At(disk', Target(name)) = <<fret'.files[i].code>>]_vars

\* A second call in which the first file of a batch of two failed and the
\* second was written, on a disk where an earlier call left a truncated file.
C11_Witness ==
    /\ ops = 2
    /\ ~dry_run
    /\ fret.op = "write_files"
    /\ Len(fret.files) = 2
    /\ fret.files[1].filename \in FailedNames
    /\ fret.files[2].filename \in SuccessNames
    /\ At(disk, Target(fret.files[2].filename)) = <<fret.files[2].code>>
    /\ At(disk, Target(SRC_A)) = << <<>> >>

\* C12: a write_files call of an engine that is not in dry-run mode changes
\* the content of no backup that exists already, and every backup it reports
\* is a file that did not exist before the call: each overwrite has a backup
\* of its own, however close in time the calls are.
C12_BackupsKept ==
    [][(fret'.op = "write_files" /\ ops' = ops + 1 /\ ~dry_run) =>
          /\ \A loc \in DOMAIN disk :
                IsUnder(BackupDir, loc) => At(disk', loc) = At(disk, loc)
          /\ \A i \in 1..Len(fret'.backups) : fret'.backups[i] \notin DOMAIN disk]_vars

\* C13: a rollback_to_task call changes no backup file, no entry of the history
\* and nothing of the history file, and a rollback_to_task(W) that follows a
\* rollback_to_task(W) with no call in between leaves every file as the first
\* left it.
C13_RollbackIdempotent ==
    [][(fret'.op = "rollback_to_task" /\ ops' = ops + 1) =>
          /\ \A loc \in DOMAIN disk :
                IsUnder(BackupDir, loc) => At(disk', loc) = At(disk, loc)
          /\ history' = history
          /\ history_file' = history_file
          /\ (fret.op = "rollback_to_task" /\ fret.task_id = fret'.task_id)
                => disk' = disk]_vars

\* A second rollback_to_task("T1"), after the first one restored x.txt from a
\* backup: it restored x.txt again and left the disk as it was.
C13_Witness ==
    /\ ~dry_run
    /\ ops = 2
    /\ fret.op = "rollback_to_task"
    /\ fret.task_id = "T1"
    /\ fret.restored = {X_TXT}
    /\ At(fret.pre, Target(X_TXT)) \in {<< <<"v1">> >>, << <<"v2">> >>}
    /\ disk = fret.pre

\* C14: no call of an engine in dry-run mode changes a file, a backup or the
\* history file, and its write_files returns, for every file of the batch that
\* exists and is reported under success, the diff that write_files of an engine
\* not in dry-run mode returns on the same disk.
C14_DryRunPreview ==
    [][dry_run =>
          /\ disk' = disk
          /\ history_file' = history_file
          /\ fret'.op = "write_files" =>
                \A fault \in Faults(fret'.files) :
                    WriteFiles(fret'.files, fret'.task_id, fault) =>
                        LET wet == write_files(FALSE, disk, history, fret'.files,
                                               fret'.task_id, fault, now)
                        IN  \A i \in 1..Len(fret'.files) :
                                LET name == fret'.files[i].filename
                                IN  (Target(name) \in DOMAIN disk /\ name \in SuccessNames')
                                      => /\ name \in DOMAIN fret'.diffs
                                         /\ name \in DOMAIN wet.diffs
                                         /\ fret'.diffs[name] = wet.diffs[name]]_vars

\* The second call of an engine in dry-run mode: write_files returned the diff
\* from "hello" to "hello world" for x.txt, which holds "hello" as before.
C14_Witness ==
    /\ dry_run
    /\ ops = 2
    /\ fret.op = "write_files"
    /\ X_TXT \in SuccessNames
    /\ At(disk, Target(X_TXT)) = <<Hello>>
    /\ fret.diffs[X_TXT] = generate_diff(Hello, HelloWorld, Join(OutputDir, X_TXT))
    /\ Len(fret.diffs[X_TXT]) = 5
    /\ ~history_file.exists

AddCalls ==
    {<<"A", <<>>>>, <<"A", <<"A">>>>, <<"A", <<"B">>>>,
     <<"B", <<"A">>>>, <<"B", <<"C">>>>,
     <<"C", <<"A", "B">>>>}

AddInit == SetUp(<<>>)

AddNext ==
    \/ \E call \in AddCalls : AddTask(call[1], call[2], PENDING)
    \/ \E id \in TaskIds : UpdateTaskStatus(id, IN_PROGRESS)
    \/ GetReadyTasks

AddSpec == AddInit /\ [][AddNext]_vars

(***************************************************************************)
(* Properties of add_task and of the dependencies it registers.            *)
(***************************************************************************)
\* C16: an add_task call with an id that is registered already leaves the
\* task registered under the id, the order of the tasks and the graph as
\* they were.
C16_DuplicateIdRejected ==
    [][(ret'.op = "add_task" /\ ret'.id \in DOMAIN tasks) =>
          /\ tasks' = tasks
          /\ order' = order
          /\ task_graph' = task_graph]_vars

\* C17: every dependency of every registered task is a registered task.
C17_NoDanglingDependency ==
    \A id \in DOMAIN tasks :
        \A dep_id \in Range(tasks[id].dependencies) : dep_id \in DOMAIN tasks

\* C18: get_ready_tasks returns no task that has a dependency which is not
\* registered.
C18_MissingDependencyBlocks ==
    ret.op = "get_ready_tasks" =>
        \A i \in 1..Len(ret.list) :
            \A dep_id \in Range(tasks[ret.list[i]].dependencies) :
                dep_id \in DOMAIN tasks

\* C19: no registered task reaches itself along the dependencies of the
\* registered tasks.
C19_NoDependencyCycle ==
    \A id \in DOMAIN tasks : ~Reaches(id, id, Cardinality(TaskIds))

(***************************************************************************)
(* Properties of get_critical_path.                                        *)
(***************************************************************************)
\* The dependency chains of the registered tasks: each task depends on the one
\* before it and the first has no dependencies.
Chains ==
    {c \in UNION {[1..n -> DOMAIN tasks] : n \in 1..Cardinality(TaskIds)} :
        /\ tasks[c[1]].dependencies = <<>>
        /\ \A i \in 2..Len(c) : c[i - 1] \in Range(tasks[c[i]].dependencies)}

IdRank(task_id) == CHOOSE k \in 1..3 : <<"A", "B", "C">>[k] = task_id

\* C20: on tasks whose dependencies are registered and have no cycle,
\* get_critical_path returns a dependency chain of the greatest summed
\* estimated_hours of all chains, the one that ends at the earliest id when
\* several chains have that sum.
C20_CriticalPathIsLongestChain ==
    (/\ ret.op = "get_critical_path"
     /\ AllDependenciesRegistered
     /\ Acyclic) =>
        /\ ret.list \in Chains
        /\ \A c \in Chains :
              /\ duration(c) <= duration(ret.list)
              /\ duration(c) = duration(ret.list)
                    => IdRank(ret.list[Len(ret.list)]) <= IdRank(c[Len(c)])

(***************************************************************************)
(* DiffSpec: generate_diff on any two of the contents below, then          *)
(* apply_diff of the diff it returned to the first of them.                *)
(***************************************************************************)
Lines9 == <<"1", "2", "3", "4", "5", "6", "7", "8", "9">>

\* The empty text, texts of one to three lines that differ at their start, in
\* the middle or at their end, and two texts of nine lines that differ in the
\* fifth.
Contents ==
    {<<>>, <<"a">>, <<"b">>, <<"a", "b">>, <<"a", "c">>, <<"a", "b", "c">>,
     Lines9, [Lines9 EXCEPT ![5] = "x"]}

GenerateDiff(old_content, new_content) ==
    /\ diff_call' = DiffCall("generate_diff", old_content, new_content,
                             generate_diff(old_content, new_content, X_TXT), <<>>)
    /\ UNCHANGED <<tvars, now, disk, history, history_file, dry_run, fret, scandir, ops, agent, scan>>

ApplyDiff ==
    /\ diff_call.op = "generate_diff"
    /\ diff_call' = [diff_call EXCEPT
                        !.op = "apply_diff",
                        !.patched = apply_diff(diff_call.old_content, diff_call.diff)]
    /\ UNCHANGED <<tvars, now, disk, history, history_file, dry_run, fret, scandir, ops, agent, scan>>

DiffInit == SetUp(<<>>)

DiffNext ==
    \/ \E old_content \in Contents, new_content \in Contents :
          GenerateDiff(old_content, new_content)
    \/ ApplyDiff

DiffSpec == DiffInit /\ [][DiffNext]_vars

\* C21: the content apply_diff returns for a content and the diff generate_diff
\* returned from it to another content is that other content.
C21_DiffRoundTrip ==
    diff_call.op = "apply_diff" => diff_call.patched = diff_call.new_content

(***************************************************************************)
(* agent.py: the development loop of AIDevelopmentAgent over its           *)
(* TaskManager and FileManager.                                            *)
(***************************************************************************)
\* TaskManager.update_task_status on the table ts: the table after the call.
update_task_status(ts, task_id, status) ==
    IF task_id \in DOMAIN ts /\ can_transition(ts[task_id].status, status)
    THEN [ts EXCEPT ![task_id] = apply_status(@, status)]
    ELSE ts

\* AIDevelopmentAgent._check_blocked_tasks over the tasks ids of the table ts,
\* in the order of the dict: the table after it.
RECURSIVE check_blocked_tasks(_, _)
check_blocked_tasks(ts, ids) ==
    IF ids = <<>> THEN ts
    ELSE LET task == ts[ids[1]]
             deps_met == \A dep_id \in Range(task.dependencies) :
                            /\ dep_id \in DOMAIN ts
                            /\ ts[dep_id].status = "COMPLETED"
         IN  IF task.status = "PENDING" \/ task.status = "BLOCKED"
             THEN IF deps_met
                  THEN check_blocked_tasks(update_task_status(ts, ids[1], "READY"),
                                           Tail(ids))
                  ELSE IF task.status = "PENDING" /\ task.dependencies # <<>>
                       THEN check_blocked_tasks(
                                update_task_status(ts, ids[1], "BLOCKED"), Tail(ids))
                       ELSE check_blocked_tasks(ts, Tail(ids))
             ELSE check_blocked_tasks(ts, Tail(ids))

CheckBlockedTasks ==
    /\ agent.pc = "loop"
    /\ tasks' = check_blocked_tasks(tasks, order)
    /\ ret' = Call("check_blocked_tasks", "", "", FALSE, <<>>)
    /\ UNCHANGED <<order, task_graph, now, fvars, agent, scan>>

\* settings.max_iterations
MaxIterations == 2

\* ready_tasks[:3]
MaxPerIteration == 3

\* The head of an iteration of _ai_development_loop: the loop test, the ready
\* tasks, the blocked tasks checked when there are none, the break.
LoopIteration ==
    /\ agent.pc = "loop"
    /\ UNCHANGED <<order, task_graph, now, fvars, scan>>
    /\ IF agent.iteration <= MaxIterations /\ agent.completed_tasks < agent.n_tasks
       THEN /\ tasks' = IF get_ready_tasks = <<>>
                        THEN check_blocked_tasks(tasks, order) ELSE tasks
            /\ ret' = Call("get_ready_tasks", "", "", FALSE, get_ready_tasks')
            /\ agent' = [agent EXCEPT
                  !.ready_tasks = SubSeq(get_ready_tasks', 1,
                                         Min(MaxPerIteration, Len(get_ready_tasks'))),
                  !.pc = IF get_ready_tasks' = <<>> THEN "done" ELSE "process"]
       ELSE /\ agent' = [agent EXCEPT !.pc = "done"]
            /\ UNCHANGED <<tasks, ret>>

\* What the builder returns for a task: the files of build_result.
BuildOutputs == {<<File(X_TXT, HelloWorld)>>}

\* The builder fails, the validation fails and cannot proceed, or the files
\* are built and pass.
BuildOutcomes == {"build_failed", "validation_failed", "built"}

\* The faults write_files can meet in the loop.
AgentFaults(files) ==
    {fault \in Faults(files) : fault.kind \in {"none", "read", "write_open"}}

\* _process_ai_task on the next of the ready tasks, and the end of the
\* iteration after the last of them.
ProcessAiTask(outcome, files, fault) ==
    /\ agent.pc = "process"
    /\ LET task_id == Head(agent.ready_tasks)
           started == update_task_status(tasks, task_id, "IN_PROGRESS")
           r == write_files(dry_run, disk, history, files, task_id, fault, now)
           written == outcome = "built"
           status == IF written /\ r.failed = <<>> THEN "COMPLETED" ELSE "FAILED"
           rest == Tail(agent.ready_tasks)
       IN  /\ tasks' = update_task_status(started, task_id, status)
           /\ ret' = Call("update_task_status", task_id, status,
                          can_transition(started[task_id].status, status), <<>>)
           /\ IF written
              THEN /\ disk' = r.disk
                   /\ history' = r.history
                   /\ history_file' = save_history(history_file, r.history)
                   /\ fret' = FileCall("write_files", task_id, files, r.success,
                                       r.failed, r.backups, r.diffs, {}, disk)
                   /\ ops' = ops + 1
              ELSE UNCHANGED <<disk, history, history_file, fret, ops>>
           /\ agent' = [agent EXCEPT
                 !.ready_tasks = rest,
                 !.completed_tasks = @ + 1,
                 !.iteration = IF rest = <<>> THEN @ + 1 ELSE @,
                 !.pc = IF rest = <<>> THEN "loop" ELSE "process",
                 !.succeeded = IF status = "COMPLETED" THEN @ \cup {task_id} ELSE @,
                 !.last = [id |-> task_id,
                           built_as |-> started[task_id].status,
                           result |-> status,
                           again |-> task_id \in agent.succeeded]]
    /\ UNCHANGED <<order, task_graph, now, dry_run, scandir, diff_call, scan>>

(***************************************************************************)
(* AgentSpec: the agent after _decompose_to_tasks registered the tasks,    *)
(* then its development loop; its FileManager on an empty managed root.    *)
(***************************************************************************)
AgentInit ==
    \E regs \in Registrations :
        LET m == register_all(EmptyManager, regs, 1)
        IN  /\ tasks = m.tasks
            /\ order = m.order
            /\ task_graph = m.task_graph
            /\ now = 1
            /\ ret = NoCall
            /\ disk = <<>>
            /\ history = <<>>
            /\ history_file = [exists |-> FALSE, data |-> <<>>]
            /\ dry_run \in BOOLEAN
            /\ fret = NoFileCall
            /\ scandir = "ascending"
            /\ diff_call = NoDiffCall
            /\ ops = 0
            /\ agent = [NoAgent EXCEPT !.pc = "loop", !.n_tasks = Len(regs)]
            /\ scan = NoScan

AgentNext ==
    \/ LoopIteration
    \/ CheckBlockedTasks
    \/ \E outcome \in BuildOutcomes, files \in BuildOutputs :
          \E fault \in AgentFaults(files) : ProcessAiTask(outcome, files, fault)

AgentSpec == AgentInit /\ [][AgentNext]_vars

\* C22: the blocked-status recomputation leaves every task that was PENDING or
\* BLOCKED with a registered dependency that is not COMPLETED in BLOCKED, and
\* every such task whose dependencies are all COMPLETED in PENDING.
C22_RecomputeBlocked ==
    [][CheckBlockedTasks =>
          \A t \in DOMAIN tasks :
              tasks[t].status \in {PENDING, BLOCKED} =>
                  /\ (\E d \in Range(tasks[t].dependencies) \cap DOMAIN tasks :
                         tasks[d].status # COMPLETED)
                        => tasks'[t].status = BLOCKED
                  /\ (\A d \in Range(tasks[t].dependencies) :
                         d \in DOMAIN tasks /\ tasks[d].status = COMPLETED)
                        => tasks'[t].status = PENDING]_vars

\* C29: the development loop moves a task it took from get_ready_tasks to
\* IN_PROGRESS before it calls the builder, leaves it COMPLETED when build,
\* validation and file writing succeeded and FAILED otherwise, and hands no
\* task to the builder that it completed before.
C29_LoopDrivesStatus ==
    [][(\E outcome \in BuildOutcomes, files \in BuildOutputs :
           \E fault \in AgentFaults(files) : ProcessAiTask(outcome, files, fault))
          => /\ agent'.last.built_as = IN_PROGRESS
             /\ tasks'[agent'.last.id].status =
                   (IF agent'.last.result = "COMPLETED" THEN COMPLETED ELSE FAILED)
             /\ ~agent'.last.again]_vars

\* C23: a call other than an update_task_status that returns True leaves the
\* status of every registered task as it was.
C23_OnlyUpdateChangesStatus ==
    [][~(ret'.op = "update_task_status" /\ ret'.val)
          => \A id \in DOMAIN tasks :
                 id \in DOMAIN tasks' /\ tasks'[id].status = tasks[id].status]_vars

\* C24: the started timestamp of a task is assigned once, by the transition
\* that first enters IN_PROGRESS, and its completed timestamp once, by the
\* transition that enters COMPLETED; no later call assigns either again.
C24_TimestampsSetOnce ==
    [][\A id \in DOMAIN tasks :
          /\ tasks'[id].started_at # tasks[id].started_at
                => /\ tasks[id].started_at = None
                   /\ tasks[id].status # IN_PROGRESS /\ tasks'[id].status = IN_PROGRESS
          /\ tasks'[id].completed_at # tasks[id].completed_at
                => /\ tasks[id].completed_at = None
                   /\ tasks[id].status # COMPLETED /\ tasks'[id].status = COMPLETED]_vars

(***************************************************************************)
(* PersistSpec: a FileManager on a root that an earlier engine may have    *)
(* left a history file in; write_files calls that return, write_files      *)
(* calls during which the process stops, and new engines constructed on    *)
(* the same root, all within one second.                                   *)
(***************************************************************************)
\* FileManager._load_history: the history of an engine constructed on a root
\* whose history file is hf.  The data of a history file are what json.load
\* reads from it; a file json.load cannot read gives {}, as an empty one.
load_history(hf) == IF hf.exists THEN hf.data ELSE <<>>

\* The history file after FileManager._save_history:
\*   "none"       the history is written;
\*   "save_open"  open(history_file, 'w') raises: the file is as it was;
\*   "save_trunc" json.dump raises after open(.., 'w') truncated the file.
\* The exception is logged and write_files returns its results.
save_history_fault(hf, h, save) ==
    IF dry_run \/ save = "save_open" THEN hf
    ELSE IF save = "save_trunc" THEN [exists |-> TRUE, data |-> <<>>]
    ELSE [exists |-> TRUE, data |-> h]

SaveFaults == {"none", "save_open", "save_trunc"}

\* write_files returns.
WriteFilesSaved(files, task_id, fault, save) ==
    /\ ops < MaxOps
    /\ LET r == write_files(dry_run, disk, history, files, task_id, fault, now)
       IN  /\ disk' = r.disk
           /\ history' = r.history
           /\ history_file' = save_history_fault(history_file, r.history, save)
           /\ fret' = FileCall("write_files", task_id, files, r.success, r.failed,
                               r.backups, r.diffs, {}, disk)
    /\ ops' = ops + 1
    /\ UNCHANGED <<tvars, now, dry_run, scandir, diff_call, agent, scan>>

\* Where the process can stop while write_files works on a file: after the
\* backup and before the target is opened, after open(.., 'w') truncated the
\* target, after the content is written and before _update_file_history, after
\* _update_file_history (before the next file, or before _save_history), and
\* in _save_history once it has opened the history file.
StopPoints == {"after_backup", "after_open", "after_write", "after_history", "in_save"}

\* The disk when the process stops at the point in the k-th file: the disk an
\* exception raised at that point leaves.
stopped_disk(d, h, files, task_id, k, point, t) ==
    LET kind == CASE point = "after_backup" -> "write_open"
                  [] point = "after_open"   -> "write_trunc"
                  [] point = "after_write"  -> "history"
                  [] OTHER                  -> "none"
    IN  write_files(FALSE, d, h, SubSeq(files, 1, k), task_id,
                    [at |-> k, kind |-> kind], t).disk

\* The process stops in a write_files call of an engine that is not in dry-run
\* mode; a new engine is constructed on the root then.
WriteFilesStopped(files, task_id, k, point) ==
    /\ ops < MaxOps
    /\ ~dry_run
    /\ point = "in_save" => k = Len(files)
    /\ disk' = stopped_disk(disk, history, files, task_id, k, point, now)
    /\ history_file' = IF point = "in_save"
                       THEN [exists |-> TRUE, data |-> <<>>]
                       ELSE history_file
    /\ history' = load_history(history_file')
    /\ fret' = FileCall("stopped", task_id, files, <<>>, <<>>, <<>>, <<>>, {}, disk)
    /\ ops' = ops + 1
    /\ UNCHANGED <<tvars, now, dry_run, scandir, diff_call, agent, scan>>

\* FileManager.__init__ on the same root.
NewEngine ==
    /\ fret.op = "write_files"
    /\ history' = load_history(history_file)
    /\ fret' = FileCall("__init__", "", <<>>, <<>>, <<>>, <<>>, <<>>, {}, disk)
    /\ UNCHANGED <<tvars, now, disk, history_file, dry_run, scandir, diff_call, ops,
                   agent, scan>>

\* A history of x.txt that is at the cap: HistoryCap records of T1.
FullHistory ==
    X_TXT :> [i \in 1..HistoryCap |->
                 [task_id |-> "T1", timestamp |-> 0, size |-> i, backup_count |-> 0]]

\* The history file an earlier engine left: none, or one at the cap.
InitialHistoryFiles ==
    {[exists |-> FALSE, data |-> <<>>],
     [exists |-> TRUE, data |-> FullHistory]}

PersistInit ==
    /\ tasks = EmptyManager.tasks
    /\ order = EmptyManager.order
    /\ task_graph = EmptyManager.task_graph
    /\ ret = NoCall
    /\ now = 1
    /\ disk \in InitialDisks
    /\ history_file \in InitialHistoryFiles
    /\ history = load_history(history_file)
    /\ dry_run \in BOOLEAN
    /\ fret = NoFileCall
    /\ scandir = "ascending"
    /\ diff_call = NoDiffCall
    /\ ops = 0
    /\ agent = NoAgent
    /\ scan = NoScan

\* The faults of the files of a batch that leave a target written.
PersistFaults(files) ==
    {fault \in Faults(files) : fault.kind \in {"none", "history"}}

PersistNext ==
    \/ \E call \in WriteCalls, save \in SaveFaults :
          \E fault \in PersistFaults(call.files) :
             WriteFilesSaved(call.files, call.task_id, fault, save)
    \/ \E call \in WriteCalls, point \in StopPoints :
          \E k \in 1..Len(call.files) :
             WriteFilesStopped(call.files, call.task_id, k, point)
    \/ NewEngine

PersistSpec == PersistInit /\ [][PersistNext]_vars

\* C25: when the process stops in a write_files call of an engine that is not
\* in dry-run mode, every target the call changed has a record of the call in
\* the persisted history file.
C25_CrashConsistent ==
    fret.op = "stopped" =>
        \A i \in 1..Len(fret.files) :
            LET name == fret.files[i].filename
            IN  At(disk, Target(name)) # At(fret.pre, Target(name))
                   => /\ history_file.exists
                      /\ name \in DOMAIN history_file.data
                      /\ \E j \in 1..Len(history_file.data[name]) :
                            history_file.data[name][j].task_id = fret.task_id

\* The records of the path f in the history h: work unit and size of each.
Records(h, f) ==
    IF f \in DOMAIN h
    THEN [i \in 1..Len(h[f]) |-> <<h[f][i].task_id, h[f][i].size>>]
    ELSE <<>>

\* The successful writes of the call to the path f, from the i-th file of the
\* batch on: work unit and size of each.
RECURSIVE WritesTo(_, _, _)
WritesTo(call, f, i) ==
    IF i > Len(call.files) THEN <<>>
    ELSE (IF call.files[i].filename = f /\ f \in Range(call.success)
          THEN << <<call.task_id, len(call.files[i].code)>> >> ELSE <<>>)
         \o WritesTo(call, f, i + 1)

\* The most recent n of the records s.
MostRecent(s, n) == IF Len(s) > n THEN SubSeq(s, Len(s) - n + 1, Len(s)) ELSE s

\* C26: a write_files call of an engine that is not in dry-run mode appends
\* the successful writes of the call to the history of each path, in their
\* order, and keeps the most recent 100 records of the path; a new engine on
\* the root loads that history from the history file.
C26_HistoryIsWriteSequence ==
    [][(fret'.op = "write_files" /\ ops' = ops + 1 /\ ~dry_run)
          => /\ \A f \in DOMAIN history \cup DOMAIN history'
                         \cup {fret'.files[i].filename : i \in 1..Len(fret'.files)} :
                    Records(history', f) =
                       MostRecent(Records(history, f) \o WritesTo(fret', f, 1),
                                  HistoryCap)
             /\ load_history(history_file') = history']_vars

(***************************************************************************)
(* GraphSpec: an engine that starts empty and is sent add_task calls in    *)
(* any order, and the queries of the dependency graph.                     *)
(***************************************************************************)
\* TaskManager.get_task_dependencies: the ids of the tasks it returns, in the
\* order of the dict.
get_task_dependencies(task_id) ==
    IF task_id \notin task_graph.nodes THEN <<>>
    ELSE LET predecessor(dep_id) == <<dep_id, task_id>> \in task_graph.edges
         IN  SelectSeq(order, predecessor)

\* TaskManager.get_dependent_tasks: the ids of the tasks it returns, in the
\* order of the dict.
get_dependent_tasks(task_id) ==
    IF task_id \notin task_graph.nodes THEN <<>>
    ELSE LET successor(dep_id) == <<task_id, dep_id>> \in task_graph.edges
         IN  SelectSeq(order, successor)

GetTaskDependencies(task_id) ==
    /\ ret' = Call("get_task_dependencies", task_id, "", FALSE,
                   get_task_dependencies(task_id))
    /\ UNCHANGED <<tasks, order, task_graph, now, fvars, agent, scan>>

GetDependentTasks(task_id) ==
    /\ ret' = Call("get_dependent_tasks", task_id, "", FALSE,
                   get_dependent_tasks(task_id))
    /\ UNCHANGED <<tasks, order, task_graph, now, fvars, agent, scan>>

GraphInit == SetUp(<<>>)

GraphNext ==
    \/ \E call \in AddCalls : AddTask(call[1], call[2], PENDING)
    \/ \E id \in TaskIds : GetTaskDependencies(id)
    \/ \E id \in TaskIds : GetDependentTasks(id)

GraphSpec == GraphInit /\ [][GraphNext]_vars

\* C28: the graph has the edge from d to t exactly when d is listed in the
\* dependencies of t, for all registered d and t and whatever the order they
\* were added in; get_task_dependencies(t) returns the registered tasks that t
\* lists and get_dependent_tasks(d) the registered tasks that list d.
C28_EdgesAreDependencies ==
    /\ \A d \in DOMAIN tasks, t \in DOMAIN tasks :
          <<d, t>> \in task_graph.edges <=> d \in Range(tasks[t].dependencies)
    /\ (ret.op = "get_task_dependencies" /\ ret.id \in DOMAIN tasks)
          => Range(ret.list) = Range(tasks[ret.id].dependencies) \cap DOMAIN tasks
    /\ (ret.op = "get_dependent_tasks" /\ ret.id \in DOMAIN tasks)
          => Range(ret.list) =
                {t \in DOMAIN tasks : ret.id \in Range(tasks[t].dependencies)}

(***************************************************************************)
(* ScanSpec: one thread in get_ready_tasks while other threads call        *)
(* update_task_status.  The engine takes no lock: a call of the other      *)
(* threads can run between two iterations of the loop of get_ready_tasks.  *)
(***************************************************************************)
\* ready_tasks = [] and the start of the loop over self.tasks.items()
ScanStart ==
    /\ scan.pc # "loop"
    /\ scan' = [pc |-> "loop", i |-> 1, ready_tasks |-> <<>>,
                snapshots |-> {get_ready_tasks}]
    /\ UNCHANGED <<tvars, now, fvars, agent>>

\* One iteration of the loop: the task is appended when it is PENDING and its
\* dependencies are met.
ScanStep ==
    /\ scan.pc = "loop"
    /\ scan.i <= Len(order)
    /\ scan' = [scan EXCEPT
                   !.i = @ + 1,
                   !.ready_tasks = IF is_ready(order[scan.i])
                                   THEN Append(@, order[scan.i]) ELSE @]
    /\ UNCHANGED <<tvars, now, fvars, agent>>

\* return ready_tasks
ScanReturn ==
    /\ scan.pc = "loop"
    /\ scan.i > Len(order)
    /\ scan' = [scan EXCEPT !.pc = "returned"]
    /\ ret' = Call("get_ready_tasks", "", "", FALSE, scan.ready_tasks)
    /\ UNCHANGED <<tasks, order, task_graph, now, fvars, agent>>

\* update_task_status in another thread, between two calls of get_ready_tasks
\* or during one.
ConcurrentUpdate(task_id, status) ==
    /\ scan.pc # "returned"
    /\ update_task_status_ok(task_id, status)
    /\ tasks' = update_task_status(tasks, task_id, status)
    /\ UNCHANGED <<order, task_graph, ret, now, fvars, agent>>
    /\ scan' = IF scan.pc = "loop"
               THEN [scan EXCEPT !.snapshots = @ \cup {get_ready_tasks'}]
               ELSE scan

\* The set-ups of the scans: a task with two dependents, a chain, and two tasks.
ScanRegistrations ==
    {<< <<"A", <<>>, "pending">>, <<"B", <<"A">>, "pending">>, <<"C", <<"A">>, "pending">> >>,
     << <<"A", <<>>, "pending">>, <<"B", <<"A">>, "pending">>, <<"C", <<"B">>, "pending">> >>,
     << <<"A", <<>>, "pending">>, <<"B", <<"A">>, "pending">> >>}

ScanInit == \E regs \in ScanRegistrations : SetUp(regs)

ScanNext ==
    \/ ScanStart
    \/ ScanStep
    \/ ScanReturn
    \/ \E id \in TaskIds, status \in TaskStatus : ConcurrentUpdate(id, status)

ScanSpec == ScanInit /\ [][ScanNext]_vars

\* C27: the list a get_ready_tasks call returns while other threads call
\* update_task_status is the ready list of one state the table was in during
\* the call; it holds no task together with one of its dependencies.
C27_ConsistentSnapshot ==
    scan.pc = "returned" =>
        /\ scan.ready_tasks \in scan.snapshots
        /\ \A t \in Range(scan.ready_tasks) :
              Range(tasks[t].dependencies) \cap Range(scan.ready_tasks) = {}

(***************************************************************************)
(* RetrySpec: an engine whose tasks were all registered, every dependency  *)
(* registered too, before the first update_task_status call; then any      *)
(* get_ready_tasks and update_task_status calls, those that fail a task    *)
(* and retry it included, in which a task leaves PENDING only while        *)
(* get_ready_tasks returns it.                                             *)
(***************************************************************************)
RetryInit ==
    /\ Init
    /\ AllDependenciesRegistered

RetryUpdate(task_id, status) ==
    /\ (update_task_status_ok(task_id, status) /\ tasks[task_id].status = PENDING)
          => task_id \in Range(get_ready_tasks)
    /\ UpdateTaskStatus(task_id, status)

RetryNext ==
    \/ GetReadyTasks
    \/ \E id \in TaskIds, status \in TaskStatus : RetryUpdate(id, status)

RetrySpec == RetryInit /\ [][RetryNext]_vars

\* C30: when the tasks and their dependencies are registered before the first
\* update and a task leaves PENDING only while get_ready_tasks returns it,
\* every task that is IN_PROGRESS, COMPLETED or FAILED has all its
\* dependencies COMPLETED, also after it failed and was retried.
C30_DependencyOrder ==
    \A t \in DOMAIN tasks :
        tasks[t].status \in {IN_PROGRESS, COMPLETED, FAILED} =>
            \A d \in Range(tasks[t].dependencies) :
                d \in DOMAIN tasks /\ tasks[d].status = COMPLETED

\* A task with a dependency failed and went back to PENDING, its start time
\* kept, while another task with a dependency is started or failed.
C30_Witness ==
    \E t \in DOMAIN tasks, u \in DOMAIN tasks :
        /\ t # u
        /\ tasks[t].dependencies # <<>> /\ tasks[u].dependencies # <<>>
        /\ tasks[t].status = PENDING /\ tasks[t].started_at # None
        /\ tasks[u].status \in {IN_PROGRESS, FAILED}

====
